---------------------------- MODULE Spec2Model ----------------------------
(***************************************************************************)
(* Model of scripts/update_models.py: one run of main() is                 *)
(*   fetch_leaderboard -> load_mapping -> resolver loop -> update_yaml     *)
(*   -> report.                                                            *)
(* The environment (the two HTTP sources, the mapping file, the YAML file) *)
(* is chosen in Init; the program itself is deterministic.                 *)
(*                                                                         *)
(* Conventions                                                             *)
(*  - a string of the program whose characters matter (a leaderboard       *)
(*    name, tested with startswith("_") and for emptiness) is a tuple of   *)
(*    characters; <<>> is "".                                              *)
(*  - an optional value (a dict key that may be missing) is a tuple of     *)
(*    length 0 (missing) or 1 (present).                                   *)
(*  - the YAML document is a tree: documents that use YAML anchors and     *)
(*    aliases (two places sharing one object) are outside the model.       *)
(***************************************************************************)
EXTENDS Integers, Sequences, FiniteSets, TLC

VARIABLES
    api,             \* environment: what GET ARENA_API_URL answers
    page,            \* environment: what GET lmarena.ai/leaderboard answers
    mappingFile,     \* environment: content of model_mapping.json
    yamlFile,        \* content of librechat.yaml
    pc,              \* control position of the run
    run,             \* number of the current run of the script
    arena_models,    \* main: result of fetch_leaderboard()
    mapping,         \* main: result of load_mapping()
    provider_models, \* main: provider -> optional list of ids
    matched,         \* main: match counter
    old_content,     \* main: text read before update_yaml
    config,          \* update_yaml: the loaded document
    new_content,     \* main: text read after update_yaml
    report,          \* main: final message
    exitStatus,      \* exit status of the process, -1 while running
    primaryCalls,    \* history: requests to the API in this run
    fallbackCalls,   \* history: requests to the web page in this run
    writes,          \* history: open(YAML_FILE, "w") in this run
    yaml0,           \* history: content of librechat.yaml when the run began
    prevEnd          \* history: pc at which the previous run ended

vars == <<api, page, mappingFile, yamlFile, pc, run, arena_models, mapping,
          provider_models, matched, old_content, config, new_content, report,
          exitStatus, primaryCalls, fallbackCalls, writes, yaml0, prevEnd>>

envVars == <<api, page, mappingFile>>

(***************************************************************************)
(* Bounds of the model and the program's constant.                         *)
(***************************************************************************)
TOP_N == 30

\* longest tail of explicit items after the padding of a response
MaxTail == 2
MaxPageTail == 1
\* number of runs of the script in one behaviour
MaxRuns == 2
\* longest list drawn directly for the resolver and for update_yaml
MaxArena == 3
MaxGroup == 2
\* longest custom endpoint list of a document
MaxCustom == 2

Min(a, b) == IF a < b THEN a ELSE b

SeqUpTo(S, n) == UNION {[1..m -> S] : m \in 0..n}

Last(s) == s[Len(s)]

\* optional values
None == <<>>
Some(v) == <<v>>
IsSome(o) == Len(o) = 1
Get(o) == o[1]

(***************************************************************************)
(* Leaderboard names.                                                      *)
(***************************************************************************)
Empty == <<>>
nX == <<"x">>
nY == <<"y">>
nZ == <<"z">>
nU == <<"_", "u">>
nPad == <<"p">>
Names == {nX, nY, nZ, nU, nPad}

\* Python truthiness of a str
Truthy(s) == Len(s) > 0

\* str.startswith("_")
StartsWithUnderscore(k) == Len(k) > 0 /\ k[1] = "_"

(***************************************************************************)
(* The primary API's answer.  An item of the JSON list is a record (a      *)
(* dict with optional "model" and "name") or something without .get.       *)
(***************************************************************************)
Rec(m, n) == [isDict |-> TRUE, model |-> m, name |-> n]
NonRecord == [isDict |-> FALSE, model |-> None, name |-> None]
PadItem == Rec(Some(nPad), None)

Items ==
    { NonRecord,
      Rec(Some(nX), None), Rec(None, Some(nY)), Rec(Some(Empty), Some(nU)),
      Rec(Some(nY), Some(nX)),
      Rec(None, None), Rec(Some(Empty), Some(Empty)) }

\* head, then k padding records, then tail
Padded(head, k, tail, padding) == head \o [i \in 1..k |-> padding] \o tail

ApiList(items) == [kind |-> "list", items |-> items]
ApiOther(kind) == [kind |-> kind, items |-> <<>>]

ApiFailures ==
    {ApiOther("transport"), ApiOther("status"), ApiOther("notjson"),
     ApiOther("notlist")}

\* item.get("model") or item.get("name", "")
ItemName(item) ==
    IF IsSome(item.model) /\ Truthy(Get(item.model))
    THEN Get(item.model)
    ELSE IF IsSome(item.name) THEN Get(item.name) ELSE Empty

\* what an attempt at a source does
Return(v) == [kind |-> "return", value |-> v, exc |-> "none"]
Raise(e) == [kind |-> "raise", value |-> <<>>, exc |-> e]
FallThrough == [kind |-> "fallthrough", value |-> <<>>, exc |-> "none"]

\* variant of PrimaryAttempt: the empty names are dropped before the cut
PrimaryAttempt_NoSlice(a) ==
    CASE a.kind = "transport" -> Raise("RequestException")
      [] a.kind = "status" -> Raise("HTTPError")
      [] a.kind = "notjson" -> Raise("JSONDecodeError")
      [] a.kind = "notlist" -> FallThrough
      [] OTHER ->
           LET data == a.items
               n == Min(TOP_N, Len(data))
           IN  IF \E i \in 1..n : ~data[i].isDict
               THEN Raise("AttributeError")
               ELSE LET models == [i \in 1..Len(data) |-> ItemName(data[i])]
                        named == SelectSeq(models, Truthy)
                    IN  Return(SubSeq(named, 1, Min(TOP_N, Len(named))))

\* variant of PrimaryAttempt: a list is parsed but not returned
PrimaryAttempt_NoReturn(a) ==
    CASE a.kind = "transport" -> Raise("RequestException")
      [] a.kind = "status" -> Raise("HTTPError")
      [] a.kind = "notjson" -> Raise("JSONDecodeError")
      [] OTHER -> FallThrough

\* the body of the first try block of fetch_leaderboard
PrimaryAttempt(a) ==
    CASE a.kind = "transport" -> Raise("RequestException")
      [] a.kind = "status" -> Raise("HTTPError")
      [] a.kind = "notjson" -> Raise("JSONDecodeError")
      [] a.kind = "notlist" -> FallThrough
      [] OTHER ->
           LET data == a.items
               n == Min(TOP_N, Len(data))
           IN  IF \E i \in 1..n : ~data[i].isDict
               THEN Raise("AttributeError")
               ELSE LET models == [i \in 1..n |-> ItemName(data[i])]
                    IN  Return(SelectSeq(models, Truthy))

(***************************************************************************)
(* The fallback page's answer: whether the __NEXT_DATA__ pattern matches   *)
(* and its group parses as JSON, and the "model_name" matches in document  *)
(* order (the pattern [^"]+ never matches an empty name).                  *)
(***************************************************************************)
PageOk(blob, names) == [kind |-> "ok", blob |-> blob, names |-> names]
PageOther(kind) == [kind |-> kind, blob |-> "none", names |-> <<>>]

PageFailures == {PageOther("transport"), PageOther("status")}

\* the body of the second try block of fetch_leaderboard
PageAttempt(p) ==
    CASE p.kind = "transport" -> Raise("RequestException")
      [] p.kind = "status" -> Raise("HTTPError")
      [] OTHER ->
           IF p.blob = "malformed"
           THEN Raise("JSONDecodeError")
           ELSE IF p.names # <<>>
                THEN Return(SubSeq(p.names, 1, Min(TOP_N, Len(p.names))))
                ELSE FallThrough

\* "except Exception": the classes the handlers of fetch_leaderboard catch
ExceptionClasses ==
    {"RequestException", "HTTPError", "JSONDecodeError", "AttributeError"}

\* variant of Catches: "except requests.RequestException"
Catches_RequestsOnly(e) == e \in {"RequestException", "HTTPError"}

Catches(e) == e \in ExceptionClasses


(***************************************************************************)
(* model_mapping.json: malformed, a JSON value that is no object, or an    *)
(* object from display names to entries.  An entry has an optional         *)
(* "provider" and an optional "model_id".                                  *)
(***************************************************************************)
Providers == {"openAI", "anthropic", "xai"}
Ids == {"gpt-a", "gpt-b"}

Info(p, m) == [provider |-> p, model_id |-> m]

MappingObject(data) == [kind |-> "object", data |-> data]
NoEntries == [k \in Names |-> None]
MappingInvalid == [kind |-> "invalid", data |-> NoEntries]
MappingNotObject == [kind |-> "notobject", data |-> NoEntries]

\* load_mapping(): json.load, then drop the keys that start with "_"
load_mapping(file) ==
    CASE file.kind = "invalid" -> Raise("JSONDecodeError")
      [] file.kind = "notobject" -> Raise("AttributeError")
      [] OTHER ->
           Return([k \in Names |->
                     IF StartsWithUnderscore(k) THEN None ELSE file.data[k]])

NoGroups == [p \in Providers |-> None]

\* variant of SetDefaultAppend: the id is put in front
SetDefaultAppend_Prepend(pm, provider, model_id) ==
    [pm EXCEPT ![provider] =
        IF IsSome(@) THEN Some(<<model_id>> \o Get(@)) ELSE Some(<<model_id>>)]

\* provider_models.setdefault(provider, []).append(model_id)
SetDefaultAppend(pm, provider, model_id) ==
    [pm EXCEPT ![provider] =
        IF IsSome(@) THEN Some(Append(Get(@), model_id)) ELSE Some(<<model_id>>)]

\* the loop "for arena_name in arena_models" of main, from position i on
RECURSIVE ResolveFrom(_, _, _, _, _)
ResolveFrom(names, table, i, pm, count) ==
    IF i > Len(names)
    THEN Return([provider_models |-> pm, matched |-> count])
    ELSE IF ~IsSome(table[names[i]])
         THEN ResolveFrom(names, table, i + 1, pm, count)
         ELSE LET info == Get(table[names[i]])
              IN  IF ~IsSome(info.provider) \/ ~IsSome(info.model_id)
                  THEN Raise("KeyError")
                  ELSE ResolveFrom(names, table, i + 1,
                                   SetDefaultAppend(pm, Get(info.provider),
                                                    Get(info.model_id)),
                                   count + 1)

Resolve(names, table) == ResolveFrom(names, table, 1, NoGroups, 0)

(***************************************************************************)
(* librechat.yaml.  A document is the value yaml.safe_load returns: None   *)
(* (root "null") or a dict with its keys in insertion order, some other    *)
(* content ("version") and an optional "endpoints" dict, which holds       *)
(* optional built-in endpoints and an optional "custom" list.  An endpoint *)
(* is a dict with its keys in order, an optional "name", an optional       *)
(* "models" dict (its "default" list and its other content, "fetch") and   *)
(* an optional "titleModel".                                               *)
(***************************************************************************)
BuiltinNames == {"openAI", "anthropic", "google"}

Endpoint(keys, name, models, title) ==
    [keys |-> keys, name |-> name, models |-> models, titleModel |-> title]

Models(default, fetch) == [default |-> default, fetch |-> fetch]

EndpointsObj(builtin, custom) == [builtin |-> builtin, custom |-> custom]

\* the {} that config.get("endpoints", {}) returns for a missing key
EmptyEndpoints == EndpointsObj([b \in BuiltinNames |-> None], None)

Doc(keys, version, endpoints) ==
    [root |-> "mapping", keys |-> keys, version |-> version,
     endpoints |-> endpoints]

NullDoc == [root |-> "null", keys |-> <<>>, version |-> "", endpoints |-> None]

\* d[key] = ... on a dict whose keys are kept in insertion order
KeysWith(keys, key) ==
    IF \E i \in 1..Len(keys) : keys[i] = key THEN keys ELSE Append(keys, key)

\* the text of the file: how it is written, and the document it denotes
Text(style, doc) == [style |-> style, doc |-> doc]

\* yaml.safe_load(f)
safe_load(text) ==
    IF text.style = "malformed" THEN Raise("YAMLError") ELSE Return(text.doc)

\* yaml.dump(config, f, default_flow_style=False, allow_unicode=True,
\*           sort_keys=False)
dump(doc) == Text("dumped", doc)

\* `name in provider_models and provider_models[name]`, as the list or <<>>
GroupOf(pm, name) ==
    IF name \in DOMAIN pm /\ IsSome(pm[name]) THEN Get(pm[name]) ELSE <<>>

\* variant of SetModels: titleModel is set whatever the length of the list
SetModels_TitleAlways(e, ids) ==
    IF ~IsSome(e.models)
    THEN Raise("KeyError")
    ELSE Return([e EXCEPT !.models = Some([Get(@) EXCEPT !.default = ids]),
                          !.titleModel = Some(Last(ids)),
                          !.keys = KeysWith(@, "titleModel")])

\* variant of SetModels: the new ids are added to the list instead of
\* replacing it
SetModels_Extend(e, ids) ==
    IF ~IsSome(e.models)
    THEN Raise("KeyError")
    ELSE LET e1 == [e EXCEPT !.models =
                        Some([Get(@) EXCEPT !.default = @ \o ids])]
         IN  IF Len(ids) > 1
             THEN Return([e1 EXCEPT !.titleModel = Some(Last(ids)),
                                    !.keys = KeysWith(@, "titleModel")])
             ELSE Return(e1)

\* endpoint["models"]["default"] = ids; if len(ids) > 1: titleModel = ids[-1]
SetModels(e, ids) ==
    IF ~IsSome(e.models)
    THEN Raise("KeyError")
    ELSE LET e1 == [e EXCEPT !.models = Some([Get(@) EXCEPT !.default = ids])]
         IN  IF Len(ids) > 1
             THEN Return([e1 EXCEPT !.titleModel = Some(Last(ids)),
                                    !.keys = KeysWith(@, "titleModel")])
             ELSE Return(e1)

\* one pass of the loop "for builtin in [...]" of update_yaml
UpdateBuiltin(endpoints, builtin, pm) ==
    IF IsSome(endpoints.builtin[builtin]) /\ builtin \in DOMAIN pm
          /\ IsSome(pm[builtin]) /\ Get(pm[builtin]) # <<>>
    THEN LET r == SetModels(Get(endpoints.builtin[builtin]), Get(pm[builtin]))
         IN  IF r.kind = "raise"
             THEN r
             ELSE Return([endpoints EXCEPT !.builtin[builtin] = Some(r.value)])
    ELSE Return(endpoints)

\* the loop "for endpoint in endpoints['custom']", from position i on
RECURSIVE UpdateCustomFrom(_, _, _)
UpdateCustomFrom(custom, i, pm) ==
    IF i > Len(custom)
    THEN Return(custom)
    ELSE LET name == IF IsSome(custom[i].name) THEN Get(custom[i].name) ELSE ""
             ids == GroupOf(pm, name)
         IN  IF ids # <<>>
             THEN LET r == SetModels(custom[i], ids)
                  IN  IF r.kind = "raise"
                      THEN r
                      ELSE UpdateCustomFrom([custom EXCEPT ![i] = r.value],
                                            i + 1, pm)
             ELSE UpdateCustomFrom(custom, i + 1, pm)

\* update_yaml between its load and its write
Mutate(doc, pm) ==
    IF doc.root # "mapping"
    THEN Raise("AttributeError")
    ELSE LET e0 == IF IsSome(doc.endpoints) THEN Get(doc.endpoints)
                   ELSE EmptyEndpoints
             r1 == UpdateBuiltin(e0, "openAI", pm)
         IN  IF r1.kind = "raise" THEN r1 ELSE
             LET r2 == UpdateBuiltin(r1.value, "anthropic", pm)
             IN  IF r2.kind = "raise" THEN r2 ELSE
                 LET e2 == r2.value
                     r3 == IF IsSome(e2.custom)
                           THEN UpdateCustomFrom(Get(e2.custom), 1, pm)
                           ELSE Return(<<>>)
                 IN  IF r3.kind = "raise" THEN r3 ELSE
                     LET e3 == IF IsSome(e2.custom)
                               THEN [e2 EXCEPT !.custom = Some(r3.value)]
                               ELSE e2
                     IN  Return([doc EXCEPT
                                   !.endpoints = Some(e3),
                                   !.keys = KeysWith(@, "endpoints")])


(***************************************************************************)
(* The run.                                                                *)
(***************************************************************************)
NoText == Text("unread", NullDoc)

Terminal == {"exit1", "exit0", "done", "crashed"}

\* the locals of main and update_yaml before they are assigned
FreshLocals ==
    /\ arena_models = <<>>
    /\ mapping = NoEntries
    /\ provider_models = NoGroups
    /\ matched = 0
    /\ old_content = NoText
    /\ config = NullDoc
    /\ new_content = NoText
    /\ report = "none"
    /\ exitStatus = -1
    /\ primaryCalls = 0
    /\ fallbackCalls = 0
    /\ writes = 0

\* an uncaught exception ends the process with status 1
Crash ==
    /\ pc' = "crashed"
    /\ exitStatus' = 1

\* fetch_leaderboard, first try block (lines 26-35)
FetchPrimary ==
    /\ pc = "primary"
    /\ primaryCalls' = primaryCalls + 1
    /\ LET r == PrimaryAttempt(api)
       IN  IF r.kind = "return"
           THEN /\ arena_models' = r.value
                /\ pc' = "fetched"
                /\ UNCHANGED exitStatus
           ELSE IF r.kind = "raise" /\ ~Catches(r.exc)
                THEN Crash /\ UNCHANGED arena_models
                ELSE /\ pc' = "fallback"
                     /\ UNCHANGED <<arena_models, exitStatus>>
    /\ UNCHANGED <<envVars, yamlFile, run, mapping, provider_models, matched,
                   old_content, config, new_content, report, fallbackCalls,
                   writes, yaml0, prevEnd>>

\* fetch_leaderboard, second try block and the final return (lines 38-55)
FetchFallback ==
    /\ pc = "fallback"
    /\ fallbackCalls' = fallbackCalls + 1
    /\ LET r == PageAttempt(page)
       IN  IF r.kind = "raise" /\ ~Catches(r.exc)
           THEN Crash /\ UNCHANGED arena_models
           ELSE /\ arena_models' = IF r.kind = "return" THEN r.value ELSE <<>>
                /\ pc' = "fetched"
                /\ UNCHANGED exitStatus
    /\ UNCHANGED <<envVars, yamlFile, run, mapping, provider_models, matched,
                   old_content, config, new_content, report, primaryCalls,
                   writes, yaml0, prevEnd>>

\* main, lines 97-99: if not arena_models: sys.exit(1)
CheckArena ==
    /\ pc = "fetched"
    /\ IF arena_models = <<>>
       THEN pc' = "exit1" /\ exitStatus' = 1
       ELSE pc' = "load_mapping" /\ UNCHANGED exitStatus
    /\ UNCHANGED <<envVars, yamlFile, run, arena_models, mapping,
                   provider_models, matched, old_content, config, new_content,
                   report, primaryCalls, fallbackCalls, writes, yaml0, prevEnd>>

\* main, line 105: mapping = load_mapping()
LoadMapping ==
    /\ pc = "load_mapping"
    /\ LET r == load_mapping(mappingFile)
       IN  IF r.kind = "raise"
           THEN Crash /\ UNCHANGED mapping
           ELSE /\ mapping' = r.value
                /\ pc' = "resolve"
                /\ UNCHANGED exitStatus
    /\ UNCHANGED <<envVars, yamlFile, run, arena_models, provider_models,
                   matched, old_content, config, new_content, report,
                   primaryCalls, fallbackCalls, writes, yaml0, prevEnd>>

\* main, lines 108-116: the resolver loop
ResolveLoop ==
    /\ pc = "resolve"
    /\ LET r == Resolve(arena_models, mapping)
       IN  IF r.kind = "raise"
           THEN Crash /\ UNCHANGED <<provider_models, matched>>
           ELSE /\ provider_models' = r.value.provider_models
                /\ matched' = r.value.matched
                /\ pc' = "check_matched"
                /\ UNCHANGED exitStatus
    /\ UNCHANGED <<envVars, yamlFile, run, arena_models, mapping, old_content,
                   config, new_content, report, primaryCalls, fallbackCalls,
                   writes, yaml0, prevEnd>>

\* variant of CheckMatched: the run goes on with zero matches
CheckMatched_NoExit ==
    /\ pc = "check_matched"
    /\ pc' = "read_old"
    /\ UNCHANGED <<envVars, yamlFile, run, arena_models, mapping,
                   provider_models, matched, old_content, config, new_content,
                   report, exitStatus, primaryCalls, fallbackCalls, writes,
                   yaml0, prevEnd>>

\* main, lines 122-123: if matched == 0: sys.exit(0)
CheckMatched ==
    /\ pc = "check_matched"
    /\ IF matched = 0
       THEN pc' = "exit0" /\ exitStatus' = 0
       ELSE pc' = "read_old" /\ UNCHANGED exitStatus
    /\ UNCHANGED <<envVars, yamlFile, run, arena_models, mapping,
                   provider_models, matched, old_content, config, new_content,
                   report, primaryCalls, fallbackCalls, writes, yaml0, prevEnd>>

\* main, lines 126-127: old_content = f.read()
ReadOld ==
    /\ pc = "read_old"
    /\ old_content' = yamlFile
    /\ pc' = "update_load"
    /\ UNCHANGED <<envVars, yamlFile, run, arena_models, mapping,
                   provider_models, matched, config, new_content, report,
                   exitStatus, primaryCalls, fallbackCalls, writes, yaml0,
                   prevEnd>>

\* update_yaml, lines 65-66: config = yaml.safe_load(f)
UpdateYamlLoad ==
    /\ pc = "update_load"
    /\ LET r == safe_load(yamlFile)
       IN  IF r.kind = "raise"
           THEN Crash /\ UNCHANGED config
           ELSE /\ config' = r.value
                /\ pc' = "update_mutate"
                /\ UNCHANGED exitStatus
    /\ UNCHANGED <<envVars, yamlFile, run, arena_models, mapping,
                   provider_models, matched, old_content, new_content, report,
                   primaryCalls, fallbackCalls, writes, yaml0, prevEnd>>

\* update_yaml, lines 68-88: the in-memory update of the document
UpdateYamlMutate ==
    /\ pc = "update_mutate"
    /\ LET r == Mutate(config, provider_models)
       IN  IF r.kind = "raise"
           THEN Crash /\ UNCHANGED config
           ELSE /\ config' = r.value
                /\ pc' = "update_write"
                /\ UNCHANGED exitStatus
    /\ UNCHANGED <<envVars, yamlFile, run, arena_models, mapping,
                   provider_models, matched, old_content, new_content, report,
                   primaryCalls, fallbackCalls, writes, yaml0, prevEnd>>

\* update_yaml, lines 90-91: open(YAML_FILE, "w"); yaml.dump(config, f)
UpdateYamlWrite ==
    /\ pc = "update_write"
    /\ yamlFile' = dump(config)
    /\ writes' = writes + 1
    /\ pc' = "read_new"
    /\ UNCHANGED <<envVars, run, arena_models, mapping, provider_models,
                   matched, old_content, config, new_content, report,
                   exitStatus, primaryCalls, fallbackCalls, yaml0, prevEnd>>

\* main, lines 131-132: new_content = f.read()
ReadNew ==
    /\ pc = "read_new"
    /\ new_content' = yamlFile
    /\ pc' = "report"
    /\ UNCHANGED <<envVars, yamlFile, run, arena_models, mapping,
                   provider_models, matched, old_content, config, report,
                   exitStatus, primaryCalls, fallbackCalls, writes, yaml0,
                   prevEnd>>

\* main, lines 134-137: the reported outcome, then the normal end
Report ==
    /\ pc = "report"
    /\ report' = IF old_content = new_content THEN "nochange" ELSE "updated"
    /\ pc' = "done"
    /\ exitStatus' = 0
    /\ UNCHANGED <<envVars, yamlFile, run, arena_models, mapping,
                   provider_models, matched, old_content, config, new_content,
                   primaryCalls, fallbackCalls, writes, yaml0, prevEnd>>

\* the script is started again: same sources, same mapping file, the YAML
\* file as the previous run left it
Rerun ==
    /\ pc \in Terminal
    /\ run < MaxRuns
    /\ run' = run + 1
    /\ pc' = "primary"
    /\ prevEnd' = pc
    /\ yaml0' = yamlFile
    /\ arena_models' = <<>>
    /\ mapping' = NoEntries
    /\ provider_models' = NoGroups
    /\ matched' = 0
    /\ old_content' = NoText
    /\ config' = NullDoc
    /\ new_content' = NoText
    /\ report' = "none"
    /\ exitStatus' = -1
    /\ primaryCalls' = 0
    /\ fallbackCalls' = 0
    /\ writes' = 0
    /\ UNCHANGED <<envVars, yamlFile>>


(***************************************************************************)
(* The bounded sets the environment is drawn from.                         *)
(***************************************************************************)
\* lists around the cutoff: at most one item, 0 or TOP_N-2..TOP_N padding
\* records, up to MaxTail items
PadCounts == {0, TOP_N - 2, TOP_N - 1, TOP_N}

ApisRich ==
    ApiFailures \cup
    {ApiList(Padded(h, k, t, PadItem)) :
        h \in SeqUpTo(Items, 1), k \in PadCounts,
        t \in SeqUpTo(Items, MaxTail)}

PageNames == {nX, nU}

PagesRich ==
    PageFailures \cup
    {PageOk(b, Padded(<<>>, k, t, nPad)) :
        b \in {"none", "valid", "malformed"}, k \in PadCounts,
        t \in SeqUpTo(PageNames, MaxPageTail)}

ApisSmall ==
    {ApiOther("transport"), ApiOther("notlist"), ApiList(<<>>),
     ApiList(<<Rec(Some(Empty), None)>>),
     ApiList(<<Rec(Some(nX), None)>>),
     ApiList(<<Rec(Some(nX), None), Rec(None, Some(nY))>>),
     ApiList(<<Rec(Some(nY), None), Rec(Some(nU), None), Rec(Some(nX), None)>>),
     ApiList(<<Rec(Some(nZ), None), NonRecord>>)}

PagesSmall ==
    {PageOther("transport"), PageOk("none", <<>>),
     PageOk("valid", <<nY, nX>>), PageOk("malformed", <<nX>>)}

\* mapping files: each key has no entry or one of a few entries
EntriesX ==
    {None, Some(Info(Some("openAI"), Some("gpt-a"))),
     Some(Info(Some("xai"), Some("gpt-b"))),
     Some(Info(None, Some("gpt-a")))}
EntriesY ==
    {None, Some(Info(Some("openAI"), Some("gpt-b"))),
     Some(Info(Some("xai"), Some("gpt-a"))),
     Some(Info(Some("openAI"), None))}
EntriesU == {None, Some(Info(Some("openAI"), Some("gpt-a")))}

MappingData(x, y, u) ==
    [k \in Names |->
        IF k = nX THEN x ELSE IF k = nY THEN y ELSE IF k = nU THEN u ELSE None]

MappingFilesRich ==
    {MappingInvalid, MappingNotObject} \cup
    {MappingObject(MappingData(x, y, u)) :
        x \in EntriesX, y \in EntriesY, u \in EntriesU}

MappingFilesSmall ==
    {MappingInvalid,
     MappingObject(NoEntries),
     MappingObject(MappingData(Some(Info(Some("openAI"), Some("gpt-a"))),
                               Some(Info(Some("openAI"), Some("gpt-b"))),
                               Some(Info(Some("openAI"), Some("gpt-a"))))),
     MappingObject(MappingData(Some(Info(Some("xai"), Some("gpt-b"))),
                               Some(Info(Some("openAI"), Some("gpt-a"))),
                               None)),
     MappingObject(MappingData(Some(Info(Some("anthropic"), Some("gpt-a"))),
                               Some(Info(Some("openAI"), None)),
                               None))}

\* endpoints of documents
MkEndpoint(name, models, title) ==
    Endpoint((IF IsSome(name) THEN <<"name">> ELSE <<>>)
               \o (IF IsSome(models) THEN <<"models">> ELSE <<>>)
               \o (IF IsSome(title) THEN <<"titleModel">> ELSE <<>>),
             name, models, title)

FullBody(name) ==
    MkEndpoint(name, Some(Models(<<"gpt-old">>, TRUE)), Some("gpt-old"))
NoTitleBody(name) ==
    MkEndpoint(name, Some(Models(<<"gpt-a", "gpt-b">>, FALSE)), None)
NoModelsBody(name) == MkEndpoint(name, None, None)

Builtins(o, a) ==
    [b \in BuiltinNames |->
        IF b = "openAI" THEN o
        ELSE IF b = "anthropic" THEN a ELSE Some(FullBody(None))]

OpenAIChoices ==
    {None, Some(FullBody(None)), Some(NoTitleBody(None)),
     Some(NoModelsBody(None))}
AnthropicChoices == {None, Some(NoTitleBody(None))}

CustomEntries ==
    {FullBody(Some("xai")), NoModelsBody(Some("xai")), FullBody(None),
     NoTitleBody(Some("openAI"))}

CustomChoices == {None} \cup {Some(c) : c \in SeqUpTo(CustomEntries, MaxCustom)}

DocsRich ==
    {NullDoc, Doc(<<"version">>, "1.2.1", None)} \cup
    {Doc(<<"version", "endpoints">>, "1.2.1", Some(EndpointsObj(Builtins(o, a), c))) :
        o \in OpenAIChoices, a \in AnthropicChoices, c \in CustomChoices}

TextsRich ==
    {Text("malformed", NullDoc)} \cup
    {Text(st, d) : st \in {"dumped", "handwritten"}, d \in DocsRich}

DocsSmall ==
    {NullDoc,
     Doc(<<"version">>, "1.2.1", None),
     Doc(<<"endpoints", "version">>, "1.2.1",
         Some(EndpointsObj(Builtins(Some(FullBody(None)), None),
                           Some(<<FullBody(Some("xai"))>>)))),
     Doc(<<"version", "endpoints">>, "1.2.1",
         Some(EndpointsObj(Builtins(Some(NoTitleBody(None)),
                                    Some(NoTitleBody(None))),
                           Some(<<NoModelsBody(Some("xai"))>>)))),
     Doc(<<"version", "endpoints">>, "1.2.1",
         Some(EndpointsObj(Builtins(Some(NoModelsBody(None)), None), None))),
     Doc(<<"version", "endpoints">>, "1.2.1",
         Some(EndpointsObj(Builtins(Some(FullBody(None)), Some(FullBody(None))),
                           Some(<<NoTitleBody(Some("openAI")),
                                  FullBody(None)>>)))),
     Doc(<<"version", "endpoints">>, "1.2.1",
         Some(EndpointsObj(Builtins(None, None),
                           Some(<<FullBody(Some("xai")),
                                  NoTitleBody(Some("xai"))>>))))}

TextsSmall ==
    {Text("malformed", NullDoc)} \cup
    {Text(st, d) : st \in {"dumped", "handwritten"}, d \in DocsSmall}

\* provider groups handed to update_yaml directly
GroupChoices(ids) == {None} \cup {Some(g) : g \in SeqUpTo(ids, MaxGroup)}

GroupsRich ==
    {[p \in Providers |->
        IF p = "openAI" THEN o ELSE IF p = "xai" THEN x ELSE a] :
        o \in GroupChoices(Ids), x \in GroupChoices({"gpt-b"}),
        a \in {None, Some(<<"gpt-b", "gpt-a">>)}}

ArenaNames == {nX, nY, nZ, nU}

(***************************************************************************)
(* Specifications.                                                         *)
(***************************************************************************)
InitWith(sources, mappingFiles, texts, start) ==
    /\ \E pair \in sources : api = pair[1] /\ page = pair[2]
    /\ mappingFile \in mappingFiles
    /\ yamlFile \in texts
    /\ yaml0 = yamlFile
    /\ pc = start
    /\ run = 1
    /\ prevEnd = "none"
    /\ FreshLocals

\* runs of the whole script
Init ==
    InitWith(ApisSmall \X PagesSmall, MappingFilesSmall, TextsSmall, "primary")

Next ==
    \/ FetchPrimary
    \/ FetchFallback
    \/ CheckArena
    \/ LoadMapping
    \/ ResolveLoop
    \/ CheckMatched
    \/ ReadOld
    \/ UpdateYamlLoad
    \/ UpdateYamlMutate
    \/ UpdateYamlWrite
    \/ ReadNew
    \/ Report
    \/ Rerun

Spec == Init /\ [][Next]_vars

\* fetch_leaderboard alone: every answer of the API with a few pages, and
\* every page with the answers of the API that lead to it
ApisToFallback ==
    ApiFailures \cup {ApiList(<<NonRecord>>), ApiList(<<PadItem, NonRecord>>)}

FetchSources == (ApisRich \X PagesSmall) \cup (ApisToFallback \X PagesRich)

InitFetch ==
    InitWith(FetchSources, {MappingInvalid}, {Text("malformed", NullDoc)},
             "primary")

NextFetch == FetchPrimary \/ FetchFallback

SpecFetch == InitFetch /\ [][NextFetch]_vars

\* load_mapping and the resolver loop alone, for every fetched sequence
InitResolve ==
    /\ api = ApiOther("transport")
    /\ page = PageOther("transport")
    /\ mappingFile \in MappingFilesRich
    /\ yamlFile = Text("malformed", NullDoc)
    /\ yaml0 = yamlFile
    /\ pc = "load_mapping"
    /\ run = 1
    /\ prevEnd = "none"
    /\ arena_models \in SeqUpTo(ArenaNames, MaxArena)
    /\ mapping = NoEntries
    /\ provider_models = NoGroups
    /\ matched = 0
    /\ old_content = NoText
    /\ config = NullDoc
    /\ new_content = NoText
    /\ report = "none"
    /\ exitStatus = -1
    /\ primaryCalls = 0
    /\ fallbackCalls = 0
    /\ writes = 0

NextResolve == LoadMapping \/ ResolveLoop

SpecResolve == InitResolve /\ [][NextResolve]_vars

\* update_yaml alone, for every document and every provider group
InitUpdate ==
    /\ api = ApiOther("transport")
    /\ page = PageOther("transport")
    /\ mappingFile = MappingInvalid
    /\ yamlFile \in TextsRich
    /\ yaml0 = yamlFile
    /\ pc = "update_load"
    /\ run = 1
    /\ prevEnd = "none"
    /\ arena_models = <<>>
    /\ mapping = NoEntries
    /\ provider_models \in GroupsRich
    /\ matched = 0
    /\ old_content = yamlFile
    /\ config = NullDoc
    /\ new_content = NoText
    /\ report = "none"
    /\ exitStatus = -1
    /\ primaryCalls = 0
    /\ fallbackCalls = 0
    /\ writes = 0

NextUpdate == UpdateYamlLoad \/ UpdateYamlMutate \/ UpdateYamlWrite

SpecUpdate == InitUpdate /\ [][NextUpdate]_vars


(***************************************************************************)
(* What the claims say about the sources, stated on the answers            *)
(* themselves.                                                             *)
(***************************************************************************)
\* a record with a non-empty "model", or else a non-empty "name"
HasName(item) ==
    /\ item.isDict
    /\ \/ IsSome(item.model) /\ Get(item.model) # Empty
       \/ IsSome(item.name) /\ Get(item.name) # Empty

\* the primary attempt fails: transport error, non-2xx status, or an
\* exception while parsing (the body is no JSON, an item read is no record)
PrimaryFailed(a) ==
    \/ a.kind \in {"transport", "status", "notjson"}
    \/ /\ a.kind = "list"
       /\ \E i \in 1..Min(TOP_N, Len(a.items)) : ~a.items[i].isDict

AllRecords(a) ==
    /\ a.kind = "list"
    /\ \A i \in 1..Len(a.items) : a.items[i].isDict

ApiYieldsName(a) ==
    /\ a.kind = "list"
    /\ \E i \in 1..Len(a.items) : HasName(a.items[i])

PageYieldsName(p) == p.kind = "ok" /\ p.names # <<>>

\* the j-th smallest element of a set of numbers
Nth(S, j) == CHOOSE i \in S : Cardinality({k \in S : k <= i}) = j

\* res is the names of the items at the positions idx, in list order
NamesAt(res, items, idx) ==
    \A j \in 1..Len(res) : res[j] = ItemName(items[Nth(idx, j)])

(* C1: in fetch_leaderboard the fallback page is requested at most once per
   call; exactly once when the primary attempt fails; never when the primary
   API returns a list of records with at least one non-empty name. *)
C1_FallbackOnce ==
    /\ fallbackCalls <= 1
    /\ pc = "fetched" =>
         /\ PrimaryFailed(api) => fallbackCalls = 1
         /\ (AllRecords(api) /\ ApiYieldsName(api)) => fallbackCalls = 0

C1_Witness ==
    /\ pc = "fetched"
    /\ api.kind = "list"
    /\ PrimaryFailed(api)
    /\ fallbackCalls = 1
    /\ arena_models # <<>>

(* C3 as stated: for a list of records the result is the first TOP_N
   non-empty names of the whole list, min(TOP_N, number of records with a
   non-empty name) of them. *)
C3_FirstTopNOfAllNames ==
    (pc = "fetched" /\ AllRecords(api)) =>
        LET idx == {i \in 1..Len(api.items) : HasName(api.items[i])}
        IN  /\ Len(arena_models) = Min(TOP_N, Cardinality(idx))
            /\ NamesAt(arena_models, api.items, idx)

(* C3 amended: for a list of records the result is the non-empty names among
   the first TOP_N records, in list order; records with an empty name among
   the first TOP_N are not replaced by later records. *)
C3_NamesOfFirstTopN ==
    (pc = "fetched" /\ AllRecords(api)) =>
        LET idx == {i \in 1..Min(TOP_N, Len(api.items)) : HasName(api.items[i])}
        IN  /\ Len(arena_models) = Cardinality(idx)
            /\ NamesAt(arena_models, api.items, idx)

C3_Witness ==
    /\ pc = "fetched"
    /\ AllRecords(api)
    /\ Len(api.items) > TOP_N
    /\ \E i \in 1..TOP_N : ~HasName(api.items[i])
    /\ \E i \in (TOP_N + 1)..Len(api.items) : HasName(api.items[i])
    /\ Len(arena_models) = TOP_N - 1

(* C10: fetch_leaderboard never lets an exception escape: whatever the two
   sources answer, the call goes on until it returns, it returns a sequence
   of names, and the sequence is empty when neither source yielded a name. *)
C10_NeverPropagates ==
    /\ pc # "crashed"
    /\ pc # "fetched" => ENABLED NextFetch
    /\ \A i \in 1..Len(arena_models) : arena_models[i] \in Names
    /\ (pc = "fetched" /\ ~ApiYieldsName(api) /\ ~PageYieldsName(page)) =>
          arena_models = <<>>

C10_Witness ==
    /\ pc = "fetched"
    /\ api.kind = "list"
    /\ PrimaryFailed(api)
    /\ page.kind = "ok"
    /\ page.blob = "malformed"
    /\ fallbackCalls = 1
    /\ arena_models = <<>>


(***************************************************************************)
(* The resolver.                                                           *)
(***************************************************************************)
\* the positions of the fetched names that model_mapping.json maps to p
\* under a key that is no comment key
MappedTo(p) ==
    {i \in 1..Len(arena_models) :
        LET k == arena_models[i]
        IN  /\ ~StartsWithUnderscore(k)
            /\ IsSome(mappingFile.data[k])
            /\ IsSome(Get(mappingFile.data[k]).provider)
            /\ Get(Get(mappingFile.data[k]).provider) = p}

IdAt(i) == Get(Get(mappingFile.data[arena_models[i]]).model_id)

(* C7: when the resolver loop of main ends, each provider's id list is the
   model_ids of the fetched names mapped to that provider, in the order of
   the fetched sequence (duplicates kept, unmapped names skipped), a provider
   nothing maps to has no group, the match count is the total number of ids,
   and a fetched name that starts with "_" contributes no id. *)
C7_GroupsInRankOrder ==
    pc = "check_matched" =>
        /\ \A p \in Providers :
              LET idx == MappedTo(p)
                  g == provider_models[p]
              IN  /\ IsSome(g) <=> idx # {}
                  /\ IsSome(g) =>
                        /\ Len(Get(g)) = Cardinality(idx)
                        /\ \A j \in 1..Len(Get(g)) :
                              Get(g)[j] = IdAt(Nth(idx, j))
        /\ matched = Cardinality(UNION {MappedTo(p) : p \in Providers})

C7_Witness ==
    /\ pc = "check_matched"
    /\ arena_models = <<nY, nU, nX>>
    /\ IsSome(mappingFile.data[nU])
    /\ provider_models["openAI"] = Some(<<"gpt-b", "gpt-a">>)
    /\ matched = 2

(***************************************************************************)
(* update_yaml.  The document before the update is the one the text read   *)
(* before it denotes; the document after it is config.                     *)
(***************************************************************************)
Updated == pc \in {"update_write", "read_new", "report", "done"}

PreDoc == old_content.doc

PreEndpoints ==
    IF IsSome(PreDoc.endpoints) THEN Get(PreDoc.endpoints) ELSE EmptyEndpoints

PostEndpoints ==
    IF IsSome(config.endpoints) THEN Get(config.endpoints) ELSE EmptyEndpoints

CustomOf(endpoints) ==
    IF IsSome(endpoints.custom) THEN Get(endpoints.custom) ELSE <<>>

NameOf(e) == IF IsSome(e.name) THEN Get(e.name) ELSE ""

\* the endpoint after the update carries the list ids as the claim says
Carries(before, after, ids) ==
    /\ IsSome(after.models)
    /\ Get(after.models).default = ids
    /\ Len(ids) > 1 => after.titleModel = Some(Last(ids))
    /\ Len(ids) = 1 => after.titleModel = before.titleModel

DefaultOf(e) == IF IsSome(e.models) THEN Some(Get(e.models).default) ELSE None

SameModelFields(before, after) ==
    /\ DefaultOf(after) = DefaultOf(before)
    /\ after.titleModel = before.titleModel

TouchedBuiltin(b) ==
    /\ b \in {"openAI", "anthropic"}
    /\ IsSome(PreEndpoints.builtin[b])
    /\ GroupOf(provider_models, b) # <<>>

TouchedCustom(i) ==
    GroupOf(provider_models, NameOf(CustomOf(PreEndpoints)[i])) # <<>>

(* C5: after update_yaml's update, every touched endpoint (openAI or
   anthropic present in the document, or a custom entry, whose name has a
   non-empty list L in the group) has models.default = L, titleModel = the
   last id of L when L has more than one id, and its former titleModel (or
   none) when L has one id; the file written holds that document. *)
C5_TouchedEndpoints ==
    Updated =>
        /\ \A b \in BuiltinNames :
              TouchedBuiltin(b) =>
                 /\ IsSome(PostEndpoints.builtin[b])
                 /\ Carries(Get(PreEndpoints.builtin[b]),
                            Get(PostEndpoints.builtin[b]),
                            GroupOf(provider_models, b))
        /\ Len(CustomOf(PostEndpoints)) = Len(CustomOf(PreEndpoints))
        /\ \A i \in 1..Len(CustomOf(PreEndpoints)) :
              TouchedCustom(i) =>
                 Carries(CustomOf(PreEndpoints)[i], CustomOf(PostEndpoints)[i],
                         GroupOf(provider_models,
                                 NameOf(CustomOf(PreEndpoints)[i])))
        /\ pc # "update_write" => yamlFile.doc = config

C5_Witness ==
    /\ pc = "read_new"
    /\ TouchedBuiltin("openAI")
    /\ Len(GroupOf(provider_models, "openAI")) = 1
    /\ Get(PreEndpoints.builtin["openAI"]).titleModel = Some("gpt-old")
    /\ Get(PostEndpoints.builtin["openAI"]).titleModel = Some("gpt-old")
    /\ \E i \in 1..Len(CustomOf(PreEndpoints)) :
          /\ TouchedCustom(i)
          /\ Len(GroupOf(provider_models, "xai")) > 1
          /\ NameOf(CustomOf(PreEndpoints)[i]) = "xai"
          /\ CustomOf(PostEndpoints)[i].titleModel = Some("gpt-b")

\* the endpoints the update must leave alone keep their two fields, and no
\* endpoint appears or disappears
UntouchedKept ==
    /\ \A b \in BuiltinNames :
          /\ IsSome(PostEndpoints.builtin[b]) <=> IsSome(PreEndpoints.builtin[b])
          /\ (IsSome(PreEndpoints.builtin[b]) /\ ~TouchedBuiltin(b)) =>
                SameModelFields(Get(PreEndpoints.builtin[b]),
                                Get(PostEndpoints.builtin[b]))
    /\ Len(CustomOf(PostEndpoints)) = Len(CustomOf(PreEndpoints))
    /\ \A i \in 1..Len(CustomOf(PreEndpoints)) :
          /\ CustomOf(PostEndpoints)[i].name = CustomOf(PreEndpoints)[i].name
          /\ ~TouchedCustom(i) =>
                SameModelFields(CustomOf(PreEndpoints)[i],
                                CustomOf(PostEndpoints)[i])

\* the rest of the document, apart from the top-level "endpoints" key
RestKept ==
    /\ config.root = PreDoc.root
    /\ config.version = PreDoc.version
    /\ IsSome(PreDoc.endpoints) =>
          /\ IsSome(config.endpoints)
          /\ IsSome(Get(config.endpoints).custom)
                <=> IsSome(Get(PreDoc.endpoints).custom)

(* C6: update_yaml creates and deletes no entries and changes only
   models.default and titleModel of touched endpoints: untouched endpoints
   keep both fields, a provider of the group that is not in the document
   adds no endpoint, and every other key, including the presence or absence
   of the top-level "endpoints" key and of the "custom" list, is as before. *)
C6_FrameOfUpdate ==
    Updated =>
        /\ UntouchedKept
        /\ RestKept
        /\ IsSome(config.endpoints) <=> IsSome(PreDoc.endpoints)
        /\ config.keys = PreDoc.keys

\* the part of C6 that the code keeps: everything but the "endpoints" key
\* of a document that had none
C6_FrameApartFromEndpointsKey ==
    Updated => UntouchedKept /\ RestKept


(***************************************************************************)
(* Whole runs of main.                                                     *)
(***************************************************************************)
\* the mapping file is a JSON object whose entries, comment keys apart,
\* have "provider" and "model_id"
ValidMappingFile ==
    /\ mappingFile.kind = "object"
    /\ \A k \in Names :
          (~StartsWithUnderscore(k) /\ IsSome(mappingFile.data[k])) =>
              /\ IsSome(Get(mappingFile.data[k]).provider)
              /\ IsSome(Get(mappingFile.data[k]).model_id)

\* the config file is a YAML document of the documented shape: a mapping
\* whose endpoints each have a "models" dict
ValidConfigFile ==
    /\ yaml0.style # "malformed"
    /\ yaml0.doc.root = "mapping"
    /\ IsSome(yaml0.doc.endpoints) =>
          LET e == Get(yaml0.doc.endpoints)
          IN  /\ \A b \in BuiltinNames :
                    IsSome(e.builtin[b]) => IsSome(Get(e.builtin[b]).models)
              /\ \A i \in 1..Len(CustomOf(e)) : IsSome(CustomOf(e)[i].models)

\* both sources were asked and neither gave a name
TotalFetchFailure ==
    primaryCalls = 1 /\ fallbackCalls = 1 /\ arena_models = <<>>

(* C2: a run of main exits with status 1 only when both the primary API and
   the fallback page were attempted and neither yielded a name; every other
   run with valid mapping and config files exits with status 0. *)
C2_Exit1OnlyOnTotalFailure ==
    (pc \in Terminal /\ ValidMappingFile /\ ValidConfigFile) =>
        /\ exitStatus = 1 => TotalFetchFailure
        /\ ~TotalFetchFailure => exitStatus = 0

(* C4: the config file is opened for writing at most once per run, and only
   after the fetch returned a name, a fetched name matched the mapping and
   the in-memory update of the loaded document completed; a run that ends in
   total fetch failure, in zero matches or in an uncaught exception leaves
   the file as it was when the run began. *)
C4_WriteOnceAfterAllComputation ==
    /\ writes <= 1
    /\ writes = 1 =>
          /\ arena_models # <<>>
          /\ matched >= 1
          /\ pc \in {"read_new", "report", "done"}
          /\ Mutate(old_content.doc, provider_models).kind = "return"
          /\ yamlFile = dump(Mutate(old_content.doc, provider_models).value)
    /\ writes = 0 => yamlFile = yaml0
    /\ pc \in {"exit1", "exit0", "crashed"} => yamlFile = yaml0

C4_Witness ==
    /\ pc = "crashed"
    /\ run = 1
    /\ matched >= 1
    /\ old_content = yamlFile
    /\ config = yamlFile.doc
    /\ Mutate(config, provider_models).kind = "raise"
    /\ yamlFile = yaml0

(* C8: a second run with the same fetched leaderboard and the same mapping,
   after a run that completed its update, ends like the first, leaves the
   file content as the first run left it and reports "no change". *)
C8_SecondRunChangesNothing ==
    (run >= 2 /\ prevEnd = "done") =>
        /\ yamlFile = yaml0
        /\ pc \notin {"exit1", "exit0", "crashed"}
        /\ pc = "done" => report = "nochange" /\ old_content = new_content

C8_Witness ==
    /\ run = 2
    /\ prevEnd = "done"
    /\ pc = "done"
    /\ writes = 1
    /\ report = "nochange"
    /\ IsSome(PostEndpoints.builtin["openAI"])
    /\ Get(PostEndpoints.builtin["openAI"]).titleModel = Some("gpt-b")

\* no endpoint of the document the run began with has a non-empty list in
\* the group
NothingToUpdate ==
    LET e == IF IsSome(yaml0.doc.endpoints) THEN Get(yaml0.doc.endpoints)
             ELSE EmptyEndpoints
    IN  /\ \A b \in {"openAI", "anthropic"} :
              IsSome(e.builtin[b]) => GroupOf(provider_models, b) = <<>>
        /\ \A i \in 1..Len(CustomOf(e)) :
              GroupOf(provider_models, NameOf(CustomOf(e)[i])) = <<>>

(* C9: when the matched group is empty for all endpoints of the document,
   the file content after the run is byte-identical to the content before
   it and the run reports "no change", whatever the initial text. *)
C9_NothingToUpdateKeepsFile ==
    (pc = "done" /\ NothingToUpdate) =>
        /\ yamlFile = yaml0
        /\ report = "nochange"

\* the part of C9 that the code keeps: a text that yaml.dump wrote and that
\* has an "endpoints" key
C9_DumpedTextWithEndpointsKept ==
    (pc = "done" /\ NothingToUpdate /\ yaml0.style = "dumped"
       /\ IsSome(yaml0.doc.endpoints)) =>
        /\ yamlFile = yaml0
        /\ report = "nochange"

=============================================================================
